---- MODULE Spec2Model ----
(***************************************************************************)
(* Model of pkg/nuclide/hack/lib/hack.js: the per-client HackLanguage      *)
(* registry (clientToHackLanguage), the server-diagnostics cache           *)
(* (clientToHackLinterCache) and the six editor operations exported by     *)
(* the module, run as interleaved async calls on one JavaScript thread.    *)
(* Every action is one synchronous run of the code between two awaits.     *)
(***************************************************************************)
EXTENDS Integers, Sequences, FiniteSets, TLC

\* ------------------------------------------------------------------ bounds
\* number of calls of exported operations made during one run
MaxCalls == 2
\* largest 0-based row / column / character offset an editor hands in
MaxLine == 1

Calls == 1..MaxCalls

\* ------------------------------------------------------------ JS values
\* An optional value (undefined / null or a value) is a set with at most
\* one element.
None == {}
Some(v) == {v}
IsSome(o) == o # {}
TheValue(o) == CHOOSE v \in o : TRUE

\* clientToHackLanguage[clientId] when the key is absent
NoLanguage == 0

\* --------------------------------------------------------------- editors
\* editor.getPath() / buffer.getUri(), as url.parse splits it; a path is the
\* sequence of its segments
LocalUri == [protocol |-> None, host |-> None, path |-> <<"a", "x.php">>]
RemoteUriA == [protocol |-> Some("nuclide:"), host |-> Some("h1"), path |-> <<"a", "x.php">>]
RemoteUriB == [protocol |-> Some("nuclide:"), host |-> Some("h1"), path |-> <<"b", "y.php">>]
Uris == {LocalUri, RemoteUriA, RemoteUriB}

\* getClient(uri).getID(): one client per connection
GetClientId(uri) == IF IsSome(uri.host) THEN TheValue(uri.host) ELSE "local"
ClientIds == {GetClientId(u) : u \in Uris}

\* pathUtil.dirname
Dirname(path) == SubSeq(path, 1, Len(path) - 1)

\* what client.findNearestFile('.hhconfig', dir) can resolve to: the nearest
\* directory at or above dir holding the file, or null
NearestFileResults(dir) == {None} \cup {Some(SubSeq(dir, 1, n)) : n \in 0..Len(dir)}

\* what client.exec('which hh_client') can print
StdoutValues == {<< >>, <<"\n">>, <<"h", "\n">>}

IsWhitespace(ch) == ch \in {" ", "\n", "\t"}

RECURSIVE TrimLeft(_)
TrimLeft(s) == IF s # << >> /\ IsWhitespace(Head(s)) THEN TrimLeft(Tail(s)) ELSE s

RECURSIVE TrimRight(_)
TrimRight(s) ==
  IF s # << >> /\ IsWhitespace(s[Len(s)]) THEN TrimRight(SubSeq(s, 1, Len(s) - 1)) ELSE s

\* String.prototype.trim
Trim(s) == TrimRight(TrimLeft(s))

\* ------------------------------------------------------------ diagnostics
\* lists hackLanguage.getDiagnostics can resolve to
RequestDiagnostics == {<< >>, <<"a", "b">>}
\* values hackLanguage.getServerDiagnostics can resolve to
ServerDiagnostics == {None, Some(<< >>), Some(<<"c">>), Some(<<"b", "a">>)}

VARIABLES
  clientToHackLanguage,    \* clientId -> index into hackLanguages, or NoLanguage
  clientToHackLinterCache, \* clientId -> optional list of diagnostics
  hackLanguages,           \* every HackLanguage constructed so far, in order
  pc,                      \* call -> where the call is suspended
  op,                      \* call -> exported operation it runs
  uri,                     \* call -> uri of its editor
  args,                    \* call -> arguments besides the editor
  execRes,                 \* call -> state of its client.exec promise
  findRes,                 \* call -> state of its client.findNearestFile promise
  lang,                    \* call -> HackLanguage its createHackLanguageIfNotExisting resolved to
  query,                   \* call -> arguments of the request sent to the HackLanguage
  reply,                   \* call -> what the awaited HackLanguage request settled to
  result,                  \* call -> value the operation resolved to
  effects                  \* call -> [updateFile, lint, deps, log] side effects performed

vars == <<clientToHackLanguage, clientToHackLinterCache, hackLanguages, pc, op, uri, args,
          execRes, findRes, lang, query, reply, result, effects>>

registryVars == <<clientToHackLanguage, hackLanguages>>
probeVars == <<execRes, findRes>>

NotIssued == [st |-> "notIssued"]
Pending == [st |-> "pending"]
Rejected == [st |-> "rejected"]
Resolved(v) == [st |-> "resolved", value |-> v]

\* log lists the side effects of an onDidSave in the order the code made them
NoEffects == [updateFile |-> "none", lint |-> 0, deps |-> "none", log |-> << >>]

Init ==
  /\ clientToHackLanguage = [c \in ClientIds |-> NoLanguage]
  /\ clientToHackLinterCache = [c \in ClientIds |-> None]
  /\ hackLanguages = << >>
  /\ pc = [p \in Calls |-> "idle"]
  /\ op = [p \in Calls |-> "none"]
  /\ uri = [p \in Calls |-> LocalUri]
  /\ args = [p \in Calls |-> << >>]
  /\ execRes = [p \in Calls |-> NotIssued]
  /\ findRes = [p \in Calls |-> NotIssued]
  /\ lang = [p \in Calls |-> NoLanguage]
  /\ query = [p \in Calls |-> << >>]
  /\ reply = [p \in Calls |-> NotIssued]
  /\ result = [p \in Calls |-> None]
  /\ effects = [p \in Calls |-> NoEffects]

\* --------------------------------------- createHackLanguageIfNotExisting
\* truthiness of clientToHackLanguage[clientId], lines 165 and 174
HasLanguage(registry, clientId) == registry[clientId] # NoLanguage

\* the early return left out: every call probes
FastPathHit_Never(registry, clientId) == FALSE

\* line 165: the check made before any probe is issued
FastPathHit(registry, clientId) == HasLanguage(registry, clientId)

\* the re-check left out: the caller installs whatever its probes decided
RecheckHit_Skipped(registry, clientId) == FALSE

\* line 174: the check made again after the probes resolved
RecheckHit(registry, clientId) == HasLanguage(registry, clientId)

\* the trim left out: whitespace on stdout counts as a found executable
Capable_Untrimmed(stdout, nearestPath) == stdout # << >> /\ IsSome(nearestPath)

\* line 177: stdout.trim() && nearestPath
Capable(stdout, nearestPath) == Trim(stdout) # << >> /\ IsSome(nearestPath)

\* lines 177-182: new HackLanguage(hackClient)
NewHackLanguage(clientId, stdout, nearestPath) ==
  [hackClient |-> IF Capable(stdout, nearestPath) THEN clientId ELSE "NullHackClient",
   clientId |-> clientId]

\* A call enters an exported operation: the operation's code runs up to its
\* await of getHackLanguageForBuffer, which runs createHackLanguageIfNotExisting
\* up to its return at line 166 or its await at line 169.
Enter(p, o, u, a) ==
  /\ pc[p] = "idle"
  /\ \A q \in Calls : q < p => pc[q] # "idle"
  /\ op' = [op EXCEPT ![p] = o]
  /\ uri' = [uri EXCEPT ![p] = u]
  /\ args' = [args EXCEPT ![p] = a]
  /\ IF FastPathHit(clientToHackLanguage, GetClientId(u))
       THEN /\ lang' = [lang EXCEPT ![p] = clientToHackLanguage[GetClientId(u)]]
            /\ pc' = [pc EXCEPT ![p] = "gotLanguage"]
            /\ UNCHANGED probeVars
       ELSE /\ execRes' = [execRes EXCEPT ![p] = Pending]
            /\ findRes' = [findRes EXCEPT ![p] = Pending]
            /\ pc' = [pc EXCEPT ![p] = "probing"]
            /\ UNCHANGED lang
  /\ UNCHANGED <<registryVars, clientToHackLinterCache, query, reply, result, effects>>

\* client.exec('which hh_client') resolves with {stdout}
ExecResolves(p, stdout) ==
  /\ pc[p] = "probing"
  /\ execRes[p] = Pending
  /\ execRes' = [execRes EXCEPT ![p] = Resolved(stdout)]
  /\ UNCHANGED <<registryVars, clientToHackLinterCache, pc, op, uri, args, findRes, lang,
                 query, reply, result, effects>>

\* client.exec('which hh_client') rejects
ExecRejects(p) ==
  /\ pc[p] = "probing"
  /\ execRes[p] = Pending
  /\ execRes' = [execRes EXCEPT ![p] = Rejected]
  /\ UNCHANGED <<registryVars, clientToHackLinterCache, pc, op, uri, args, findRes, lang,
                 query, reply, result, effects>>

\* client.findNearestFile('.hhconfig', dirname(filePath)) resolves
FindResolves(p, nearestPath) ==
  /\ pc[p] = "probing"
  /\ findRes[p] = Pending
  /\ nearestPath \in NearestFileResults(Dirname(uri[p].path))
  /\ findRes' = [findRes EXCEPT ![p] = Resolved(nearestPath)]
  /\ UNCHANGED <<registryVars, clientToHackLinterCache, pc, op, uri, args, execRes, lang,
                 query, reply, result, effects>>

\* client.findNearestFile rejects
FindRejects(p) ==
  /\ pc[p] = "probing"
  /\ findRes[p] = Pending
  /\ findRes' = [findRes EXCEPT ![p] = Rejected]
  /\ UNCHANGED <<registryVars, clientToHackLinterCache, pc, op, uri, args, execRes, lang,
                 query, reply, result, effects>>

\* the two probes awaited one after the other and the second await lost: the
\* call goes on as soon as exec resolved, nearestPath undefined until then
CreateResumes_AfterExecOnly(p) ==
  /\ pc[p] = "probing"
  /\ execRes[p].st = "resolved"
  /\ findRes[p].st \in {"pending", "resolved"}
  /\ LET clientId == GetClientId(uri[p])
         nearestPath == IF findRes[p].st = "resolved" THEN findRes[p].value ELSE None
     IN IF RecheckHit(clientToHackLanguage, clientId)
          THEN /\ lang' = [lang EXCEPT ![p] = clientToHackLanguage[clientId]]
               /\ UNCHANGED registryVars
          ELSE /\ hackLanguages' = Append(hackLanguages,
                    NewHackLanguage(clientId, execRes[p].value, nearestPath))
               /\ clientToHackLanguage' =
                    [clientToHackLanguage EXCEPT ![clientId] = Len(hackLanguages) + 1]
               /\ lang' = [lang EXCEPT ![p] = Len(hackLanguages) + 1]
  /\ pc' = [pc EXCEPT ![p] = "gotLanguage"]
  /\ UNCHANGED <<clientToHackLinterCache, op, uri, args, probeVars, query, reply, result,
                 effects>>

\* resolution serialised per client id: a call goes on only when no other
\* call on its client id is still waiting for its probes
CreateResumes_WaitsForOthers(p) ==
  /\ pc[p] = "probing"
  /\ execRes[p].st = "resolved"
  /\ findRes[p].st = "resolved"
  /\ \A q \in Calls :
       (q # p /\ pc[q] = "probing") => GetClientId(uri[q]) # GetClientId(uri[p])
  /\ LET clientId == GetClientId(uri[p]) IN
       IF RecheckHit(clientToHackLanguage, clientId)
         THEN /\ lang' = [lang EXCEPT ![p] = clientToHackLanguage[clientId]]
              /\ UNCHANGED registryVars
         ELSE /\ hackLanguages' = Append(hackLanguages,
                   NewHackLanguage(clientId, execRes[p].value, findRes[p].value))
              /\ clientToHackLanguage' =
                   [clientToHackLanguage EXCEPT ![clientId] = Len(hackLanguages) + 1]
              /\ lang' = [lang EXCEPT ![p] = Len(hackLanguages) + 1]
  /\ pc' = [pc EXCEPT ![p] = "gotLanguage"]
  /\ UNCHANGED <<clientToHackLinterCache, op, uri, args, probeVars, query, reply, result,
                 effects>>

\* Promise.all resolved: lines 173-183 run
CreateResumes(p) ==
  /\ pc[p] = "probing"
  /\ execRes[p].st = "resolved"
  /\ findRes[p].st = "resolved"
  /\ LET clientId == GetClientId(uri[p]) IN
       IF RecheckHit(clientToHackLanguage, clientId)
         THEN /\ lang' = [lang EXCEPT ![p] = clientToHackLanguage[clientId]]
              /\ UNCHANGED registryVars
         ELSE /\ hackLanguages' = Append(hackLanguages,
                   NewHackLanguage(clientId, execRes[p].value, findRes[p].value))
              /\ clientToHackLanguage' =
                   [clientToHackLanguage EXCEPT ![clientId] = Len(hackLanguages) + 1]
              /\ lang' = [lang EXCEPT ![p] = Len(hackLanguages) + 1]
  /\ pc' = [pc EXCEPT ![p] = "gotLanguage"]
  /\ UNCHANGED <<clientToHackLinterCache, op, uri, args, probeVars, query, reply, result,
                 effects>>

\* the rejection swallowed: the call falls back to a session on the real client
CreateThrows_DefaultsToReal(p) ==
  /\ pc[p] = "probing"
  /\ execRes[p] = Rejected \/ findRes[p] = Rejected
  /\ hackLanguages' = Append(hackLanguages,
       [hackClient |-> GetClientId(uri[p]), clientId |-> GetClientId(uri[p])])
  /\ clientToHackLanguage' =
       [clientToHackLanguage EXCEPT ![GetClientId(uri[p])] = Len(hackLanguages) + 1]
  /\ lang' = [lang EXCEPT ![p] = Len(hackLanguages) + 1]
  /\ pc' = [pc EXCEPT ![p] = "gotLanguage"]
  /\ UNCHANGED <<clientToHackLinterCache, op, uri, args, probeVars, query, reply, result,
                 effects>>

\* Promise.all rejected: the await at line 169 throws, createHackLanguageIfNotExisting
\* rejects, and so does the operation awaiting it
CreateThrows(p) ==
  /\ pc[p] = "probing"
  /\ execRes[p] = Rejected \/ findRes[p] = Rejected
  /\ pc' = [pc EXCEPT ![p] = "failed"]
  /\ UNCHANGED <<registryVars, clientToHackLinterCache, op, uri, args, probeVars, lang,
                 query, reply, result, effects>>

\* ------------------------------------------------------------ operations
\* every variable an operation's own steps leave alone
createVars == <<registryVars, op, uri, args, probeVars, lang>>

\* the await of a HackLanguage request other than getServerDiagnostics throws:
\* nothing catches it and the operation rejects
RequestRejects(p) ==
  /\ pc[p] \in {"getDiagnostics", "getCompletions", "formatSource", "getType",
                "getDefinition", "updateFile"}
  /\ reply' = [reply EXCEPT ![p] = Rejected]
  /\ pc' = [pc EXCEPT ![p] = "failed"]
  /\ UNCHANGED <<createVars, clientToHackLinterCache, query, result, effects>>

\* ----- findDiagnostics, lines 36-48
\* the two lists concatenated the other way round
MergeDiagnostics_CacheFirst(errors, cached) ==
  IF IsSome(cached) THEN TheValue(cached) \o errors ELSE errors

\* lines 42-46
MergeDiagnostics(errors, cached) ==
  IF IsSome(cached) THEN errors \o TheValue(cached) ELSE errors

\* lines 37-41
FindDiagnosticsRequests(p) ==
  /\ pc[p] = "gotLanguage"
  /\ op[p] = "findDiagnostics"
  /\ query' = [query EXCEPT ![p] = [path |-> uri[p].path]]
  /\ pc' = [pc EXCEPT ![p] = "getDiagnostics"]
  /\ UNCHANGED <<createVars, clientToHackLinterCache, reply, result, effects>>

\* lines 41-47
FindDiagnosticsReturns(p, errors) ==
  /\ pc[p] = "getDiagnostics"
  /\ reply' = [reply EXCEPT ![p] = Resolved(errors)]
  /\ result' = [result EXCEPT ![p] =
       Some(MergeDiagnostics(errors, clientToHackLinterCache[GetClientId(uri[p])]))]
  /\ pc' = [pc EXCEPT ![p] = "done"]
  /\ UNCHANGED <<createVars, clientToHackLinterCache, query, effects>>

\* ----- fetchCompletionsForEditor, lines 50-61
ToLowerCaseChar(ch) == IF ch = "A" THEN "a" ELSE IF ch = "B" THEN "b" ELSE ch
ToLowerCase(s) == [i \in 1..Len(s) |-> ToLowerCaseChar(s[i])]

\* s.indexOf(t) >= 0
Contains(s, t) == \E i \in 1..(Len(s) - Len(t) + 1) : SubSeq(s, i, i + Len(t) - 1) = t

\* lines 59-60
FilterCompletions(completions, prefix) ==
  SelectSeq(completions,
            LAMBDA completion : Contains(ToLowerCase(completion.matchText), ToLowerCase(prefix)))

\* lines 52-57
FetchCompletionsRequests(p) ==
  /\ pc[p] = "gotLanguage"
  /\ op[p] = "fetchCompletionsForEditor"
  /\ query' = [query EXCEPT ![p] = [path |-> uri[p].path, offset |-> args[p].offset]]
  /\ pc' = [pc EXCEPT ![p] = "getCompletions"]
  /\ UNCHANGED <<createVars, clientToHackLinterCache, reply, result, effects>>

\* lines 57-60
FetchCompletionsReturns(p, completions) ==
  /\ pc[p] = "getCompletions"
  /\ reply' = [reply EXCEPT ![p] = Resolved(completions)]
  /\ result' = [result EXCEPT ![p] = Some(FilterCompletions(completions, args[p].prefix))]
  /\ pc' = [pc EXCEPT ![p] = "done"]
  /\ UNCHANGED <<createVars, clientToHackLinterCache, query, effects>>

\* ----- formatSourceFromEditor, lines 63-69
\* lines 66-68
FormatSourceRequests(p) ==
  /\ pc[p] = "gotLanguage"
  /\ op[p] = "formatSourceFromEditor"
  /\ query' = [query EXCEPT ![p] =
       [startOffset |-> args[p].start + 1, endOffset |-> args[p].end + 1]]
  /\ pc' = [pc EXCEPT ![p] = "formatSource"]
  /\ UNCHANGED <<createVars, clientToHackLinterCache, reply, result, effects>>

\* line 68
FormatSourceReturns(p, formatted) ==
  /\ pc[p] = "formatSource"
  /\ reply' = [reply EXCEPT ![p] = Resolved(formatted)]
  /\ result' = [result EXCEPT ![p] = Some(formatted)]
  /\ pc' = [pc EXCEPT ![p] = "done"]
  /\ UNCHANGED <<createVars, clientToHackLinterCache, query, effects>>

\* ----- typeHintFromEditor, lines 71-91
\* lines 74-82; matchData is what extractWordAtPosition finds at the position
TypeHintRequests(p, matchData) ==
  /\ pc[p] = "gotLanguage"
  /\ op[p] = "typeHintFromEditor"
  /\ IF ~IsSome(matchData)
       THEN /\ pc' = [pc EXCEPT ![p] = "done"]
            /\ UNCHANGED query
       ELSE /\ query' = [query EXCEPT ![p] =
                 [path |-> uri[p].path, word |-> TheValue(matchData).word,
                  line |-> args[p].row + 1, column |-> args[p].column + 1,
                  range |-> TheValue(matchData).range]]
            /\ pc' = [pc EXCEPT ![p] = "getType"]
  /\ UNCHANGED <<createVars, clientToHackLinterCache, reply, result, effects>>

\* lines 82-90; a type is a string, and the empty string is falsy
TypeHintReturns(p, type) ==
  /\ pc[p] = "getType"
  /\ reply' = [reply EXCEPT ![p] = Resolved(type)]
  /\ result' = [result EXCEPT ![p] =
       IF ~IsSome(type) \/ TheValue(type) = ""
         THEN None
         ELSE Some([hint |-> TheValue(type), range |-> query[p].range])]
  /\ pc' = [pc EXCEPT ![p] = "done"]
  /\ UNCHANGED <<createVars, clientToHackLinterCache, query, effects>>

\* ----- findDefinition, lines 97-114
\* lines 143-148; a string is the sequence of its parts
GetFilePath(filePath, protocol, host) ==
  IF ~IsSome(protocol) \/ ~IsSome(host)
    THEN filePath
    ELSE <<TheValue(protocol), "//", TheValue(host)>> \o filePath

\* the position handed to hackLanguage.getDefinition, line 104
DefinitionQuery(path, line, column) ==
  [path |-> path, line |-> line + 1, column |-> column + 1]

\* the line handed back as the HackLanguage gave it, 1-based
DefinitionResult_LineNotShifted(found, protocol, host) ==
  IF ~IsSome(found) \/ Len(TheValue(found)) = 0
    THEN None
    ELSE LET pos == TheValue(found)[1] IN
         Some([file |-> GetFilePath(pos.path, protocol, host),
               line |-> pos.line,
               column |-> pos.column - 1])

\* lines 105-113
DefinitionResult(found, protocol, host) ==
  IF ~IsSome(found) \/ Len(TheValue(found)) = 0
    THEN None
    ELSE LET pos == TheValue(found)[1] IN
         Some([file |-> GetFilePath(pos.path, protocol, host),
               line |-> pos.line - 1,
               column |-> pos.column - 1])

\* lines 99-104
FindDefinitionRequests(p) ==
  /\ pc[p] = "gotLanguage"
  /\ op[p] = "findDefinition"
  /\ query' = [query EXCEPT ![p] = DefinitionQuery(uri[p].path, args[p].line, args[p].column)]
  /\ pc' = [pc EXCEPT ![p] = "getDefinition"]
  /\ UNCHANGED <<createVars, clientToHackLinterCache, reply, result, effects>>

\* lines 104-113
FindDefinitionReturns(p, found) ==
  /\ pc[p] = "getDefinition"
  /\ reply' = [reply EXCEPT ![p] = Resolved(found)]
  /\ result' = [result EXCEPT ![p] = DefinitionResult(found, uri[p].protocol, uri[p].host)]
  /\ pc' = [pc EXCEPT ![p] = "done"]
  /\ UNCHANGED <<createVars, clientToHackLinterCache, query, effects>>

\* ----- onDidSave, lines 116-140
\* the list stored without its key: every client's entry is overwritten
CacheAfterSave_AllClients(cache, clientId, diagnostics) ==
  IF IsSome(diagnostics) THEN [c \in DOMAIN cache |-> diagnostics] ELSE cache

\* lines 131-133: the cache after the fetch settled to diagnostics (undefined
\* when it threw); an array is truthy even when empty
CacheAfterSave(cache, clientId, diagnostics) ==
  IF IsSome(diagnostics) THEN [cache EXCEPT ![clientId] = diagnostics] ELSE cache

\* lines 131-139 in the order they run: the cache write and the dispatch
\* under the if, then updateDependencies
SaveSideEffects(diagnostics) ==
  (IF IsSome(diagnostics) THEN <<"cacheWrite", "lint">> ELSE << >>) \o <<"updateDependencies">>

\* line 123 without its await: the fetch is started while updateFile runs
SaveUpdatesFile_NotAwaited(p) ==
  /\ pc[p] = "gotLanguage"
  /\ op[p] = "onDidSave"
  /\ query' = [query EXCEPT ![p] = [path |-> uri[p].path]]
  /\ effects' = [effects EXCEPT ![p].updateFile = "pending",
                                ![p].log = @ \o <<"updateFile", "getServerDiagnostics">>]
  /\ pc' = [pc EXCEPT ![p] = "getServerDiagnostics"]
  /\ UNCHANGED <<createVars, clientToHackLinterCache, reply, result>>

\* line 123
SaveUpdatesFile(p) ==
  /\ pc[p] = "gotLanguage"
  /\ op[p] = "onDidSave"
  /\ query' = [query EXCEPT ![p] = [path |-> uri[p].path]]
  /\ effects' = [effects EXCEPT ![p].updateFile = "pending",
                                ![p].log = Append(@, "updateFile")]
  /\ pc' = [pc EXCEPT ![p] = "updateFile"]
  /\ UNCHANGED <<createVars, clientToHackLinterCache, reply, result>>

\* lines 123-127: updateFile resolved, getServerDiagnostics is called
SaveFetchesDiagnostics(p) ==
  /\ pc[p] = "updateFile"
  /\ effects' = [effects EXCEPT ![p].updateFile = "done",
                                ![p].log = Append(@, "getServerDiagnostics")]
  /\ pc' = [pc EXCEPT ![p] = "getServerDiagnostics"]
  /\ UNCHANGED <<createVars, clientToHackLinterCache, query, reply, result>>

\* the try/catch left out: a rejected fetch rejects onDidSave
SaveFinishes_Uncaught(p, outcome) ==
  /\ pc[p] = "getServerDiagnostics"
  /\ reply' = [reply EXCEPT ![p] = outcome]
  /\ IF outcome.st = "resolved"
       THEN /\ clientToHackLinterCache' =
                 CacheAfterSave(clientToHackLinterCache, GetClientId(uri[p]), outcome.value)
            /\ effects' = [effects EXCEPT
                 ![p].lint = IF IsSome(outcome.value) THEN @ + 1 ELSE @,
                 ![p].deps = "running",
                 ![p].log = @ \o SaveSideEffects(outcome.value)]
            /\ pc' = [pc EXCEPT ![p] = "done"]
       ELSE /\ pc' = [pc EXCEPT ![p] = "failed"]
            /\ UNCHANGED <<clientToHackLinterCache, effects>>
  /\ UNCHANGED <<createVars, query, result>>

\* line 139 written with an await: onDidSave waits for the dependency fetch
SaveFinishes_AwaitsDependencies(p, outcome) ==
  /\ pc[p] = "getServerDiagnostics"
  /\ reply' = [reply EXCEPT ![p] = outcome]
  /\ LET diagnostics == IF outcome.st = "resolved" THEN outcome.value ELSE None IN
       /\ clientToHackLinterCache' =
            CacheAfterSave(clientToHackLinterCache, GetClientId(uri[p]), diagnostics)
       /\ effects' = [effects EXCEPT
            ![p].lint = IF IsSome(diagnostics) THEN @ + 1 ELSE @,
            ![p].deps = "running",
            ![p].log = @ \o SaveSideEffects(diagnostics)]
  /\ pc' = [pc EXCEPT ![p] = "updateDependencies"]
  /\ UNCHANGED <<createVars, query, result>>

\* lines 127-139: getServerDiagnostics settled to outcome (Rejected, or
\* Resolved(an optional list)); the catch leaves diagnostics undefined
SaveFinishes(p, outcome) ==
  /\ pc[p] = "getServerDiagnostics"
  /\ reply' = [reply EXCEPT ![p] = outcome]
  /\ LET diagnostics == IF outcome.st = "resolved" THEN outcome.value ELSE None IN
       /\ clientToHackLinterCache' =
            CacheAfterSave(clientToHackLinterCache, GetClientId(uri[p]), diagnostics)
       /\ effects' = [effects EXCEPT
            ![p].lint = IF IsSome(diagnostics) THEN @ + 1 ELSE @,
            ![p].deps = "running",
            ![p].log = @ \o SaveSideEffects(diagnostics)]
  /\ pc' = [pc EXCEPT ![p] = "done"]
  /\ UNCHANGED <<createVars, query, result>>

\* the dependency fetch started at line 139 ends, well or badly, on its own
DependenciesSettle(p, ok) ==
  /\ effects[p].deps = "running"
  /\ effects' = [effects EXCEPT ![p].deps = IF ok THEN "done" ELSE "failed"]
  /\ UNCHANGED <<createVars, clientToHackLinterCache, pc, query, reply, result>>

\* ---------------------------------------------------------------- inputs
Positions == 0..MaxLine

\* arguments an editor action can hand to each exported operation
ArgsOf(o) ==
  CASE o = "findDiagnostics" -> {<< >>}
    [] o = "onDidSave" -> {<< >>}
    [] o = "fetchCompletionsForEditor" ->
         {[prefix |-> <<"A">>, offset |-> 0], [prefix |-> <<"b">>, offset |-> MaxLine]}
    [] o = "formatSourceFromEditor" -> {[start |-> 0, end |-> MaxLine]}
    [] o = "typeHintFromEditor" -> {[row |-> MaxLine, column |-> 0]}
    [] o = "findDefinition" -> {[line |-> l, column |-> c] : l \in Positions, c \in Positions}

Operations == {"findDiagnostics", "fetchCompletionsForEditor", "formatSourceFromEditor",
               "typeHintFromEditor", "findDefinition", "onDidSave"}

\* lists hackLanguage.getCompletions can resolve to
CompletionReplies ==
  {<< >>, <<[matchText |-> <<"A", "b">>], [matchText |-> <<"a">>], [matchText |-> <<"B">>]>>}

\* strings hackLanguage.formatSource can resolve to
FormatReplies == {"<?hh"}

\* what extractWordAtPosition can find
MatchDatas == {None, Some([word |-> "w", range |-> <<0, 1>>])}

\* what hackLanguage.getType can resolve to
TypeReplies == {None, Some(""), Some("int")}

\* 1-based positions hackLanguage.getDefinition can name
DefinitionPositions ==
  {[path |-> <<"a", "x.php">>, line |-> l, column |-> c] :
     l \in 1..(MaxLine + 1), c \in 1..(MaxLine + 1)}

\* what hackLanguage.getDefinition can resolve to
DefinitionReplies ==
  {None, Some(<< >>)} \cup {Some(<<pos>>) : pos \in DefinitionPositions}
    \cup {Some(<<[path |-> <<"b", "y.php">>, line |-> MaxLine + 1, column |-> 1],
                 [path |-> <<"a", "x.php">>, line |-> 1, column |-> MaxLine + 1]>>)}

\* what the await of getServerDiagnostics can settle to
ServerDiagnosticsOutcomes == {Rejected} \cup {Resolved(d) : d \in ServerDiagnostics}

\* every directory client.findNearestFile can name for some editor
NearestPaths == UNION {NearestFileResults(Dirname(u.path)) : u \in Uris}

\* ----- callers of getHackLanguageForBuffer alone, every probe outcome
NextCreate ==
  \E p \in Calls :
    \/ \E u \in Uris : Enter(p, "getHackLanguageForBuffer", u, << >>)
    \/ \E stdout \in StdoutValues : ExecResolves(p, stdout)
    \/ ExecRejects(p)
    \/ \E nearestPath \in NearestPaths : FindResolves(p, nearestPath)
    \/ FindRejects(p)
    \/ CreateResumes(p)
    \/ CreateThrows(p)

SpecCreate == Init /\ [][NextCreate]_vars

\* ----- the operations layer: the probes, explored in full by SpecCreate,
\* here resolve without rejecting
FoundStdout == <<"h", "\n">>
RootPath == Some(<< >>)

\* the steps of createHackLanguageIfNotExisting under an operation
CreateSteps(p, nearestPaths) ==
  \/ ExecResolves(p, FoundStdout)
  \/ \E nearestPath \in nearestPaths : FindResolves(p, nearestPath)
  \/ CreateResumes(p)

\* onDidSave and findDiagnostics, the writer and the reader of the cache, on
\* two clients
SaveOperations == {"findDiagnostics", "onDidSave"}
SaveUris == {LocalUri, RemoteUriA}

NextSave ==
  \E p \in Calls :
    \/ \E o \in SaveOperations : \E u \in SaveUris : \E a \in ArgsOf(o) : Enter(p, o, u, a)
    \/ CreateSteps(p, {RootPath})
    \/ RequestRejects(p)
    \/ FindDiagnosticsRequests(p)
    \/ \E errors \in RequestDiagnostics : FindDiagnosticsReturns(p, errors)
    \/ SaveUpdatesFile(p)
    \/ SaveFetchesDiagnostics(p)
    \/ \E outcome \in ServerDiagnosticsOutcomes : SaveFinishes(p, outcome)
    \/ \E ok \in BOOLEAN : DependenciesSettle(p, ok)

SpecSave == Init /\ [][NextSave]_vars

\* findDefinition on a local and a remote editor, every position
NextDefinition ==
  \E p \in Calls :
    \/ \E u \in SaveUris : \E a \in ArgsOf("findDefinition") : Enter(p, "findDefinition", u, a)
    \/ CreateSteps(p, {RootPath})
    \/ RequestRejects(p)
    \/ FindDefinitionRequests(p)
    \/ \E found \in DefinitionReplies : FindDefinitionReturns(p, found)

SpecDefinition == Init /\ [][NextDefinition]_vars

\* all six operations on one client, whose marker file comes and goes
SomeArgsOf(o) == {CHOOSE a \in ArgsOf(o) : TRUE}
SomeDefinitionReplies == {None, Some(<<CHOOSE pos \in DefinitionPositions : TRUE>>)}
SomeServerDiagnosticsOutcomes == {Rejected, Resolved(Some(<<"c">>))}

Next ==
  \E p \in Calls :
    \/ \E o \in Operations : \E a \in SomeArgsOf(o) : Enter(p, o, RemoteUriA, a)
    \/ CreateSteps(p, {None, RootPath})
    \/ RequestRejects(p)
    \/ FindDiagnosticsRequests(p)
    \/ FindDiagnosticsReturns(p, <<"a", "b">>)
    \/ FetchCompletionsRequests(p)
    \/ \E completions \in CompletionReplies : FetchCompletionsReturns(p, completions)
    \/ FormatSourceRequests(p)
    \/ \E formatted \in FormatReplies : FormatSourceReturns(p, formatted)
    \/ \E matchData \in MatchDatas : TypeHintRequests(p, matchData)
    \/ \E type \in TypeReplies : TypeHintReturns(p, type)
    \/ FindDefinitionRequests(p)
    \/ \E found \in SomeDefinitionReplies : FindDefinitionReturns(p, found)
    \/ SaveUpdatesFile(p)
    \/ SaveFetchesDiagnostics(p)
    \/ \E outcome \in SomeServerDiagnosticsOutcomes : SaveFinishes(p, outcome)
    \/ \E ok \in BOOLEAN : DependenciesSettle(p, ok)

Spec == Init /\ [][Next]_vars

\* all six operations on two clients, one reply each
NextClients ==
  \E p \in Calls :
    \/ \E o \in Operations : \E u \in SaveUris : \E a \in SomeArgsOf(o) : Enter(p, o, u, a)
    \/ CreateSteps(p, {RootPath})
    \/ RequestRejects(p)
    \/ FindDiagnosticsRequests(p)
    \/ FindDiagnosticsReturns(p, <<"a", "b">>)
    \/ FetchCompletionsRequests(p)
    \/ FetchCompletionsReturns(p, << >>)
    \/ FormatSourceRequests(p)
    \/ \E formatted \in FormatReplies : FormatSourceReturns(p, formatted)
    \/ TypeHintRequests(p, CHOOSE matchData \in MatchDatas : matchData # None)
    \/ TypeHintReturns(p, Some("int"))
    \/ FindDefinitionRequests(p)
    \/ FindDefinitionReturns(p, None)
    \/ SaveUpdatesFile(p)
    \/ SaveFetchesDiagnostics(p)
    \/ \E outcome \in SomeServerDiagnosticsOutcomes : SaveFinishes(p, outcome)
    \/ DependenciesSettle(p, TRUE)

SpecClients == Init /\ [][NextClients]_vars

\* ----- resolution with the event loop's fairness: a continuation that is
\* ready to run is run; nothing obliges a probe to complete
LiveUris == {RemoteUriA}

\* the continuation of the await at line 169
Continue(p) == CreateResumes(p) \/ CreateThrows(p)

NextLive ==
  \E p \in Calls :
    \/ \E u \in LiveUris : Enter(p, "getHackLanguageForBuffer", u, << >>)
    \/ ExecResolves(p, FoundStdout)
    \/ ExecRejects(p)
    \/ \E nearestPath \in {None, RootPath} : FindResolves(p, nearestPath)
    \/ FindRejects(p)
    \/ Continue(p)

SpecLive == Init /\ [][NextLive]_vars /\ \A p \in Calls : WF_vars(Continue(p))

\* ---------------------------------------------------------------- claims
\* the HackLanguage instances ever installed under a client id
InstalledUnder(clientId) ==
  {i \in 1..Len(hackLanguages) : hackLanguages[i].clientId = clientId}

SameClient(p, q) == GetClientId(uri[p]) = GetClientId(uri[q])

\* the call went through the probes and its createHackLanguageIfNotExisting returned
ReturnedAfterProbes(p) ==
  pc[p] = "gotLanguage" /\ execRes[p].st = "resolved" /\ findRes[p].st = "resolved"

\* C1: under every interleaving of createHackLanguageIfNotExisting calls the
\* registry holds at most one HackLanguage per client id, and at most one
\* instance is ever installed under a client id.
C1_SingleSessionPerClient ==
  \A c \in ClientIds :
    /\ Cardinality(InstalledUnder(c)) <= 1
    /\ HasLanguage(clientToHackLanguage, c) => clientToHackLanguage[c] \in InstalledUnder(c)

\* two callers raced on one client id, both probed, both returned
C1_Witness ==
  \E p, q \in Calls :
    /\ p # q /\ SameClient(p, q)
    /\ ReturnedAfterProbes(p) /\ ReturnedAfterProbes(q)
    /\ Cardinality(InstalledUnder(GetClientId(uri[p]))) = 1

\* C2: all calls of createHackLanguageIfNotExisting on one client id that
\* return, return the same HackLanguage instance, whatever the order in which
\* their probes completed.
C2_SameInstanceReturned ==
  \A p, q \in Calls :
    (pc[p] = "gotLanguage" /\ pc[q] = "gotLanguage" /\ SameClient(p, q))
      => lang[p] = lang[q] /\ lang[p] # NoLanguage

\* two callers that overlapped (both found no entry and probed) have both
\* returned, with one and the same instance
C2_Witness ==
  \E p, q \in Calls :
    /\ p < q /\ SameClient(p, q)
    /\ ReturnedAfterProbes(p) /\ ReturnedAfterProbes(q)
    /\ lang[p] = lang[q] /\ lang[p] # NoLanguage

\* the probes of the call found the executable and the marker file
ProbesPositive(p) ==
  /\ \E i \in 1..Len(execRes[p].value) : execRes[p].value[i] \notin {" ", "\n", "\t"}
  /\ findRes[p].value # None

\* the HackLanguage wraps the client itself, not a NullHackClient
WrapsRealClient(l) == l.hackClient = l.clientId

\* C3 as stated: the session every probing call resolves to is real exactly
\* when that call's own two probes were positive.
C3_OwnProbesDecide ==
  \A p \in Calls :
    ReturnedAfterProbes(p) => (WrapsRealClient(hackLanguages[lang[p]]) <=> ProbesPositive(p))

\* C3 (amended): a call that finds no entry when its probes have resolved
\* installs and returns a session that is real exactly when its own two
\* probes were positive; a call that finds an entry returns that entry,
\* whatever its own probes said.
C3_InstallerProbesDecide ==
  [][\A p \in Calls :
       (pc[p] = "probing" /\ pc'[p] = "gotLanguage") =>
         IF clientToHackLanguage[GetClientId(uri[p])] = NoLanguage
           THEN /\ lang'[p] = Len(hackLanguages) + 1
                /\ clientToHackLanguage'[GetClientId(uri[p])] = lang'[p]
                /\ Len(hackLanguages') = Len(hackLanguages) + 1
                /\ hackLanguages'[lang'[p]].clientId = GetClientId(uri[p])
                /\ WrapsRealClient(hackLanguages'[lang'[p]]) <=> ProbesPositive(p)
           ELSE /\ lang'[p] = clientToHackLanguage[GetClientId(uri[p])]
                /\ UNCHANGED registryVars]_vars

\* a caller whose own probes were negative got the real session that a
\* caller from another file path on the same client id had installed
C3_Witness ==
  \E p, q \in Calls :
    /\ SameClient(p, q) /\ uri[p] # uri[q]
    /\ ReturnedAfterProbes(p) /\ ReturnedAfterProbes(q)
    /\ ProbesPositive(p) /\ ~ProbesPositive(q)
    /\ lang[q] = lang[p] /\ WrapsRealClient(hackLanguages[lang[q]])

\* C4: a call for a client id that has an entry returns that entry in the
\* step in which it is made, issues no probe and leaves the registry alone.
C4_FastPath ==
  [][\A p \in Calls :
       (pc[p] = "idle" /\ pc'[p] # "idle"
          /\ clientToHackLanguage[GetClientId(uri'[p])] # NoLanguage) =>
         /\ pc'[p] = "gotLanguage"
         /\ lang'[p] = clientToHackLanguage[GetClientId(uri'[p])]
         /\ execRes'[p] = NotIssued /\ findRes'[p] = NotIssued
         /\ UNCHANGED registryVars]_vars

\* a call returned an existing entry without probing
C4_Witness ==
  \E p \in Calls :
    /\ pc[p] = "gotLanguage" /\ execRes[p] = NotIssued /\ findRes[p] = NotIssued
    /\ lang[p] = clientToHackLanguage[GetClientId(uri[p])] /\ lang[p] # NoLanguage

\* C5: a call one of whose probes rejected fails, installs nothing and leaves
\* the registry as it was; a call made while the client id has no entry
\* probes, also after an earlier call for that client id failed.
C5_ProbeFailure ==
  [][\A p \in Calls :
       /\ (pc[p] = "probing" /\ pc'[p] # "probing"
             /\ (execRes[p] = Rejected \/ findRes[p] = Rejected)) =>
            /\ pc'[p] = "failed" /\ lang'[p] = NoLanguage
            /\ UNCHANGED registryVars
       /\ (pc[p] = "idle" /\ pc'[p] # "idle"
             /\ clientToHackLanguage[GetClientId(uri'[p])] = NoLanguage) =>
            /\ pc'[p] = "probing" /\ execRes'[p] = Pending /\ findRes'[p] = Pending]_vars

\* a call failed on a rejected probe, nothing is installed for its client
\* id, and a later call for that client id has its probes in flight
C5_Witness ==
  \E p, q \in Calls :
    /\ p < q /\ SameClient(p, q)
    /\ pc[p] = "failed" /\ lang[p] = NoLanguage
    /\ clientToHackLanguage[GetClientId(uri[p])] = NoLanguage
    /\ pc[q] = "probing" /\ execRes[q] = Pending /\ findRes[q] = Pending

\* C6: once a HackLanguage is installed under a client id, every later state
\* maps that client id to the same instance, of the same kind, whatever
\* operation runs and whatever later probes say.
C6_EntriesPermanent ==
  [][\A c \in ClientIds :
       clientToHackLanguage[c] # NoLanguage =>
         /\ clientToHackLanguage'[c] = clientToHackLanguage[c]
         /\ Len(hackLanguages') >= clientToHackLanguage[c]
         /\ hackLanguages'[clientToHackLanguage[c]] = hackLanguages[clientToHackLanguage[c]]]_vars

\* an operation ran to its end on a Null session although its own probes
\* were positive, and the registry still holds that Null session
C6_Witness ==
  \E p, q \in Calls :
    /\ p < q /\ SameClient(p, q)
    /\ pc[p] = "done" /\ pc[q] = "done"
    /\ execRes[q].st = "resolved" /\ findRes[q].st = "resolved" /\ ProbesPositive(q)
    /\ lang[q] = lang[p] /\ ~WrapsRealClient(hackLanguages[lang[q]])
    /\ clientToHackLanguage[GetClientId(uri[q])] = lang[q]

\* C7: when getServerDiagnostics rejects, updateFile has completed, onDidSave
\* completes normally, the client's cache entry is unchanged, 'linter:lint'
\* is not dispatched and updateDependencies is invoked.
C7_FetchFailureIsolated ==
  [][\A p \in Calls :
       (pc[p] = "getServerDiagnostics" /\ pc'[p] # "getServerDiagnostics"
          /\ reply'[p] = Rejected) =>
         /\ effects[p].updateFile = "done"
         /\ pc'[p] = "done"
         /\ UNCHANGED clientToHackLinterCache
         /\ effects'[p].lint = effects[p].lint
         /\ effects[p].deps = "none" /\ effects'[p].deps = "running"]_vars

\* a save whose fetch rejected completed, with the list cached by another
\* save still in the cache, no lint dispatched and the dependencies fetched
C7_Witness ==
  \E p \in Calls :
    /\ op[p] = "onDidSave" /\ pc[p] = "done" /\ reply[p] = Rejected
    /\ effects[p].updateFile = "done" /\ effects[p].lint = 0 /\ effects[p].deps # "none"
    /\ clientToHackLinterCache[GetClientId(uri[p])] = Some(<<"c">>)

\* C8: findDiagnostics returns the request-scoped list followed by the cached
\* list of the same client id, each in its own order, or the request-scoped
\* list alone when nothing is cached, and leaves the cache as it was.
C8_DiagnosticsMerge ==
  [][\A p \in Calls :
       (pc[p] = "getDiagnostics" /\ pc'[p] = "done") =>
         LET errors == reply'[p].value
             cached == clientToHackLinterCache[GetClientId(uri[p])]
             merged == TheValue(result'[p])
         IN /\ UNCHANGED clientToHackLinterCache
            /\ result'[p] # None
            /\ SubSeq(merged, 1, Len(errors)) = errors
            /\ IF cached = None
                 THEN Len(merged) = Len(errors)
                 ELSE /\ Len(merged) = Len(errors) + Len(TheValue(cached))
                      /\ SubSeq(merged, Len(errors) + 1, Len(merged)) = TheValue(cached)]_vars

\* request [a, b] and cache [c] gave [a, b, c]
C8_Witness ==
  \E p \in Calls :
    /\ op[p] = "findDiagnostics" /\ pc[p] = "done"
    /\ reply[p] = Resolved(<<"a", "b">>)
    /\ clientToHackLinterCache[GetClientId(uri[p])] = Some(<<"c">>)
    /\ result[p] = Some(<<"a", "b", "c">>)

\* the onDidSave calls made for a client id
SavesOf(c) == {p \in Calls : op[p] = "onDidSave" /\ GetClientId(uri[p]) = c}

\* the most recently started of them
LatestSaveOf(c) == CHOOSE p \in SavesOf(c) : \A q \in SavesOf(c) : q <= p

\* C9: once all onDidSave calls for a client id have completed, the cached
\* list is the one fetched by the most recently started save.
C9_LatestSaveCached ==
  \A c \in ClientIds :
    (SavesOf(c) # {} /\ \A p \in SavesOf(c) : pc[p] = "done") =>
      LET last == LatestSaveOf(c) IN
        (reply[last].st = "resolved" /\ IsSome(reply[last].value)) =>
          clientToHackLinterCache[c] = reply[last].value

\* C10: findDefinition queries the session with (line + 1, column + 1); the
\* first element {line: L, column: C} of a non-empty result surfaces as
\* {line: L - 1, column: C - 1}, so a definition at the queried position
\* comes back as the editor's own (line, column); an empty or absent result
\* surfaces as null.
C10_CoordinateRoundTrip ==
  \A p \in Calls :
    /\ (op[p] = "findDefinition" /\ pc[p] \in {"getDefinition", "done"}) =>
         /\ query[p].line = args[p].line + 1
         /\ query[p].column = args[p].column + 1
    /\ (op[p] = "findDefinition" /\ pc[p] = "done") =>
         LET found == reply[p].value IN
           IF found = None \/ found = Some(<< >>)
             THEN result[p] = None
             ELSE LET first == TheValue(found)[1]
                      shown == TheValue(result[p])
                  IN /\ result[p] # None
                     /\ shown.line = first.line - 1
                     /\ shown.column = first.column - 1
                     /\ (first.line = query[p].line /\ first.column = query[p].column) =>
                          (shown.line = args[p].line /\ shown.column = args[p].column)

\* a definition found at the queried position, away from the origin, came
\* back as the position the editor asked about
C10_Witness ==
  \E p \in Calls :
    /\ op[p] = "findDefinition" /\ pc[p] = "done"
    /\ args[p].line = MaxLine /\ args[p].column = 0
    /\ reply[p].value # None /\ Len(TheValue(reply[p].value)) > 0
    /\ TheValue(reply[p].value)[1].line = query[p].line
    /\ TheValue(reply[p].value)[1].column = query[p].column
    /\ TheValue(result[p]).line = MaxLine /\ TheValue(result[p]).column = 0

\* C11: onDidSave completes while the dependency update it started is still
\* running, and a dependency update that fails later leaves the completed
\* onDidSave, the registry and the diagnostics cache as they were.
C11_DependenciesFireAndForget ==
  [][\A p \in Calls :
       /\ (pc[p] = "getServerDiagnostics" /\ pc'[p] # "getServerDiagnostics") =>
            (pc'[p] = "done" /\ effects'[p].deps = "running")
       /\ (effects[p].deps = "running" /\ effects'[p].deps # "running") =>
            /\ pc[p] = "done"
            /\ UNCHANGED <<pc, result, registryVars, clientToHackLinterCache>>]_vars

\* a save completed and cached its list, and its dependency update failed
\* afterwards
C11_Witness ==
  \E p \in Calls :
    /\ op[p] = "onDidSave" /\ pc[p] = "done" /\ effects[p].deps = "failed"
    /\ reply[p] = Resolved(Some(<<"c">>))
    /\ clientToHackLinterCache[GetClientId(uri[p])] = Some(<<"c">>)
    /\ clientToHackLanguage[GetClientId(uri[p])] = lang[p]

\* C12: a caller whose probes resolve after another caller installed an entry
\* for the client id constructs nothing, does not write the registry and
\* returns the existing entry; at most one HackLanguage is ever constructed
\* per client id.
C12_DuplicateSuppressed ==
  [][/\ \A p \in Calls :
          (pc[p] = "probing" /\ pc'[p] = "gotLanguage"
             /\ clientToHackLanguage[GetClientId(uri[p])] # NoLanguage) =>
            /\ hackLanguages' = hackLanguages
            /\ clientToHackLanguage' = clientToHackLanguage
            /\ lang'[p] = clientToHackLanguage[GetClientId(uri[p])]
     /\ \A c \in ClientIds :
          Cardinality({i \in 1..Len(hackLanguages') : hackLanguages'[i].clientId = c}) <= 1]_vars

\* a caller whose own probes were positive came back with the Null session
\* another caller had installed, and nothing else was constructed
C12_Witness ==
  \E p, q \in Calls :
    /\ p # q /\ SameClient(p, q)
    /\ ReturnedAfterProbes(p) /\ ReturnedAfterProbes(q)
    /\ ProbesPositive(p) /\ ~WrapsRealClient(hackLanguages[lang[p]])
    /\ Len(hackLanguages) = 1

\* the calls made so far on a client id
StartedFor(c) == {p \in Calls : pc[p] # "idle" /\ GetClientId(uri[p]) = c}

\* those of them that issued the capability probe
ProbedFor(c) == {p \in StartedFor(c) : execRes[p] # NotIssued /\ findRes[p] # NotIssued}

\* C13: a probe is issued only by a call at the moment it starts, only while
\* the client id has no entry and once per call, so the probes issued for a
\* client id never outnumber the calls started on it, and none is issued
\* after the entry is installed.
C13_ProbeWorkBounded ==
  [][/\ \A p \in Calls :
          ((execRes'[p] = Pending /\ execRes[p] # Pending)
             \/ (findRes'[p] = Pending /\ findRes[p] # Pending)) =>
            /\ pc[p] = "idle" /\ execRes[p] = NotIssued /\ findRes[p] = NotIssued
            /\ clientToHackLanguage[GetClientId(uri'[p])] = NoLanguage
     /\ \A c \in ClientIds :
          /\ Cardinality(ProbedFor(c)') <= Cardinality(StartedFor(c)')
          /\ clientToHackLanguage[c] # NoLanguage => ProbedFor(c)' = ProbedFor(c)]_vars

\* the probe has been issued twice for a client id that has no entry yet
C13_Witness ==
  \E c \in ClientIds :
    /\ clientToHackLanguage[c] = NoLanguage
    /\ Cardinality(ProbedFor(c)) = 2
    /\ \A p \in ProbedFor(c) : pc[p] = "probing"

\* C14: a call issues its two probes together, and it installs or returns a
\* session out of the resolution only when both have resolved; what it
\* installs depends on the two results alone, not on which came first.
C14_BothProbesAwaited ==
  [][\A p \in Calls :
       /\ (execRes'[p] = NotIssued) <=> (findRes'[p] = NotIssued)
       /\ (pc[p] = "probing" /\ pc'[p] = "gotLanguage") =>
            /\ execRes[p].st = "resolved" /\ findRes[p].st = "resolved"
            /\ Len(hackLanguages') > Len(hackLanguages) =>
                 (WrapsRealClient(hackLanguages'[lang'[p]]) <=> ProbesPositive(p))]_vars

\* one call has its exec result and waits for the file search, another has
\* its file search result and waits for exec
C14_Witness ==
  \E p, q \in Calls :
    /\ p # q /\ pc[p] = "probing" /\ pc[q] = "probing"
    /\ execRes[p].st = "resolved" /\ findRes[p] = Pending
    /\ findRes[q].st = "resolved" /\ execRes[q] = Pending

\* C15: of the callers racing on a client id, the first whose resolution
\* completes decides by its own probe results whether the installed session
\* is real, however late it started; every caller completing after it gets
\* that session whatever its own probes said.
C15_FirstCompletionWins ==
  [][\A p \in Calls :
       (pc[p] = "probing" /\ pc'[p] = "gotLanguage") =>
         LET others == {q \in Calls : q # p /\ pc[q] = "gotLanguage" /\ SameClient(p, q)} IN
           IF others = {}
             THEN /\ clientToHackLanguage'[GetClientId(uri[p])] = lang'[p]
                  /\ lang'[p] \notin DOMAIN hackLanguages
                  /\ WrapsRealClient(hackLanguages'[lang'[p]]) <=> ProbesPositive(p)
             ELSE /\ \A q \in others : lang'[p] = lang[q]
                  /\ hackLanguages' = hackLanguages]_vars

\* the call started last completed first and made the session real; the call
\* started before it, whose probes were negative, got that real session
C15_Witness ==
  \E p, q \in Calls :
    /\ p < q /\ SameClient(p, q)
    /\ ReturnedAfterProbes(p) /\ ReturnedAfterProbes(q)
    /\ ProbesPositive(q) /\ ~ProbesPositive(p)
    /\ lang[p] = lang[q] /\ WrapsRealClient(hackLanguages[lang[p]])

\* what an onDidSave that got past its await of getServerDiagnostics must
\* have done, in order, given what the fetch settled to
SaveLogAfter(outcome) ==
  IF outcome.st = "resolved" /\ outcome.value # None
    THEN <<"updateFile", "getServerDiagnostics", "cacheWrite", "lint", "updateDependencies">>
    ELSE <<"updateFile", "getServerDiagnostics", "updateDependencies">>

\* the side effects of call p are those its position in onDidSave allows
SaveInOrder(p) ==
  CASE pc[p] \in {"idle", "probing", "gotLanguage"} -> effects[p] = NoEffects
    [] pc[p] = "updateFile" ->
         effects[p] = [NoEffects EXCEPT !.updateFile = "pending", !.log = <<"updateFile">>]
    [] pc[p] = "getServerDiagnostics" ->
         effects[p] = [NoEffects EXCEPT !.updateFile = "done",
                                        !.log = <<"updateFile", "getServerDiagnostics">>]
    [] pc[p] = "done" ->
         /\ effects[p].updateFile = "done"
         /\ effects[p].log = SaveLogAfter(reply[p])
         /\ effects[p].lint = Cardinality({i \in 1..Len(effects[p].log) : effects[p].log[i] = "lint"})
         /\ effects[p].deps # "none"
    [] pc[p] = "failed" ->
         effects[p] \in {NoEffects,
                         [NoEffects EXCEPT !.updateFile = "pending", !.log = <<"updateFile">>]}
    [] OTHER -> FALSE

\* C16: in onDidSave, getServerDiagnostics is started only once updateFile has
\* completed; the cache entry is written and then 'linter:lint' dispatched
\* exactly when the fetch returned a list; updateDependencies is invoked once,
\* after them; a failed updateFile stops the save before any of these.
C16_SaveOrdering ==
  [][\A p \in Calls :
       op'[p] = "onDidSave" =>
         /\ SaveInOrder(p)'
         /\ (pc[p] = "getServerDiagnostics" /\ pc'[p] # "getServerDiagnostics") =>
              IF reply'[p].st = "resolved" /\ reply'[p].value # None
                THEN clientToHackLinterCache' =
                       [clientToHackLinterCache EXCEPT ![GetClientId(uri[p])] = reply'[p].value]
                ELSE UNCHANGED clientToHackLinterCache
         /\ (pc[p] = "updateFile" /\ pc'[p] = "failed") => UNCHANGED clientToHackLinterCache]_vars

\* one save went through all its steps with a fetched list, another stopped
\* at its failed updateFile
C16_Witness ==
  \E p, q \in Calls :
    /\ op[p] = "onDidSave" /\ pc[p] = "done"
    /\ effects[p].log =
         <<"updateFile", "getServerDiagnostics", "cacheWrite", "lint", "updateDependencies">>
    /\ op[q] = "onDidSave" /\ pc[q] = "failed" /\ effects[q].log = <<"updateFile">>
    /\ effects[q].lint = 0 /\ effects[q].deps = "none"

\* C17: the registry entry of a client id changes only in a step in which a
\* createHackLanguageIfNotExisting call for that client id resumes from its
\* probes, and its cache entry only in a step in which an onDidSave for
\* that client id gets its server diagnostics; a step taken for one client
\* id changes no entry of another.
C17_SingleWritersPerKey ==
  [][\A c \in ClientIds :
       /\ (clientToHackLanguage'[c] # clientToHackLanguage[c]
             \/ InstalledUnder(c)' # InstalledUnder(c)) =>
            \E p \in Calls :
              /\ GetClientId(uri[p]) = c
              /\ pc[p] = "probing" /\ pc'[p] = "gotLanguage"
       /\ clientToHackLinterCache'[c] # clientToHackLinterCache[c] =>
            \E p \in Calls :
              /\ GetClientId(uri[p]) = c /\ op[p] = "onDidSave"
              /\ pc[p] = "getServerDiagnostics" /\ pc'[p] = "done"]_vars

\* a save on one client cached its list while a call on the other client ran
\* to its end: each client has its own session, and the other's cache entry
\* is still absent
C17_Witness ==
  \E p, q \in Calls :
    /\ ~SameClient(p, q) /\ pc[p] = "done" /\ pc[q] = "done"
    /\ op[p] = "onDidSave"
    /\ clientToHackLinterCache[GetClientId(uri[p])] = Some(<<"c">>)
    /\ clientToHackLinterCache[GetClientId(uri[q])] = None
    /\ clientToHackLanguage[GetClientId(uri[p])] = lang[p]
    /\ clientToHackLanguage[GetClientId(uri[q])] = lang[q]
    /\ lang[p] # lang[q]

\* each probe call p issued completes, as long as p still waits for it
ProbesComplete(p) ==
  /\ (pc[p] = "probing" /\ execRes[p] = Pending) ~> (pc[p] # "probing" \/ execRes[p] # Pending)
  /\ (pc[p] = "probing" /\ findRes[p] = Pending) ~> (pc[p] # "probing" \/ findRes[p] # Pending)

\* C18: a call whose own probes complete returns a session or fails, whether
\* or not the probes of other calls ever complete; a call that returned
\* leaves an entry in the registry; a call one of whose probes is still
\* pending has not returned.
C18_ResolutionLive ==
  \A p \in Calls :
    /\ ProbesComplete(p) => ((pc[p] = "probing") ~> (pc[p] \in {"gotLanguage", "failed"}))
    /\ [](pc[p] = "gotLanguage" =>
            /\ clientToHackLanguage[GetClientId(uri[p])] = lang[p] /\ lang[p] # NoLanguage
            /\ execRes[p] # Pending /\ findRes[p] # Pending)

\* a call returned a session while another call on the same client id,
\* started before it, still waits for a probe
C18_Witness ==
  \E p, q \in Calls :
    /\ p < q /\ SameClient(p, q)
    /\ pc[p] = "probing" /\ execRes[p] = Pending
    /\ ReturnedAfterProbes(q) /\ clientToHackLanguage[GetClientId(uri[q])] = lang[q]

====
